---- MODULE Spec2Model ----
(***************************************************************************)
(* A model of the unix-semaphore crate (src/src/lib.rs): an owning handle  *)
(* around one heap-allocated POSIX sem_t, with retry-aware wrappers around *)
(* sem_init, sem_wait, sem_trywait, sem_timedwait, sem_post, sem_getvalue  *)
(* and sem_destroy.                                                        *)
(*                                                                         *)
(* The wrappers are translated from lib.rs.  The libc primitives are the   *)
(* environment: each is an operator that yields the SET of outcomes the    *)
(* primitive can produce in the current state of the kernel object (an     *)
(* empty set means the caller stays blocked).  One step of a wrapper is    *)
(* one call of its primitive followed by the wrapper's classification of   *)
(* the outcome; the primitive call is the atomic unit of interleaving.     *)
(***************************************************************************)
EXTENDS Integers, Sequences, FiniteSets, TLC

(* ------------------------------ bounds -------------------------------- *)
\* Threads sharing the handle.
NumThreads == 2
\* SEM_VALUE_MAX of the platform (scaled down).
SemValueMax == 2
\* Width of c_int / c_uint in bits (scaled down); SemValueMax < 2^(CIntBits-1).
CIntBits == 4
\* Signals that may interrupt primitive calls during one run.
MaxSignals == 1
\* Last instant of the wall clock.
MaxTime == 2
\* Sub-second units per second in a timespec (scaled down nanoseconds).
NanosPerSec == 2
\* Width of time_t in bits (scaled down); every instant of the clock fits.
TimeTBits == 6
\* Calls the clients make during one run.
MaxCalls == 2
\* Unclassified failures the primitives may report in the fault scenario.
MaxFaults == 1

\* Calls of the single-thread scenario.
MaxHist == 4
\* Calls one thread of a scripted scenario makes.
MaxPlan == 2
\* Calls of the critical-section scenario.
MaxSectionCalls == 3

\* The main thread constructs the handle, shares it with the worker threads
\* and is the last to let go of it.
Main == 0
Workers == 1..NumThreads
Threads == {Main} \cup Workers

(* ------------------------------- state -------------------------------- *)
VARIABLES
  handle,   \* "none" | "live" | "failed" | "dropped": the Semaphore value's life
  mode,     \* Semaphore.mode: "Uninitialized" | "Anonymous"
  mem,      \* the Box behind Semaphore.inner: "unallocated" | "allocated" | "freed"
  kstate,   \* the sem_t: "zeroed" | "init" | "destroyed"
  count,    \* the sem_t's value
  log,      \* lifecycle events on the backing object, in order
  ctor,     \* what anonymous() returned: "none" | "Ok" | an errno
  pc,       \* per thread: "idle", the wrapper it is in, or "panicked"
  arg,      \* per thread: the `until` argument of timedwait
  ts,       \* per thread: the timespec local of timedwait (NoTs outside)
  res,      \* per thread: the last completed call and its result
  now,      \* CLOCK_REALTIME, in sub-second units since the epoch
  signals,  \* signals still to be delivered
  faults,   \* unclassified failures the primitives may still report
  ncalls,   \* calls started so far
  nAcq,     \* completed acquisitions (ghost)
  nRel,     \* successful releases (ghost)
  initial,  \* the count given by a successful sem_init (ghost)
  given,    \* the argument anonymous() was called with (ghost)
  hist,     \* completed calls in order (ghost, single-thread scenario)
  plan      \* per thread: its script (scripted scenarios)

vars == <<handle, mode, mem, kstate, count, log, ctor, pc, arg, ts, res,
          now, signals, faults, ncalls, nAcq, nRel, initial, given, hist, plan>>

NoTs == [tv_sec |-> -1, tv_nsec |-> -1]
NoRes == [op |-> "none", val |-> "none", num |-> 0]
UNIX_EPOCH == 0

(* ------------------------ integer conversions ------------------------- *)
CUIntRange == 2 ^ CIntBits

\* `value as _` : c_int -> c_uint, two's complement reinterpretation.
cast(v) == v % CUIntRange

\* The count argument anonymous() hands to sem_init.
\* Variant: the arguments of sem_init swapped (pshared passed as the count).
init_arg_bad(value) == 0
init_arg(value) == cast(value)

\* until.duration_since(UNIX_EPOCH): Err when `until` precedes the epoch.
\* Variant: the distance to the epoch is taken whichever side `until` is on.
duration_since_abs(until, epoch) ==
  [ok |-> TRUE, dur |-> IF until >= epoch THEN until - epoch ELSE epoch - until]
duration_since(until, epoch) ==
  IF until >= epoch THEN [ok |-> TRUE, dur |-> until - epoch]
  ELSE [ok |-> FALSE, dur |-> epoch - until]

\* `dur.as_secs() as _` : u64 -> time_t, keeping the low bits as a signed
\* number.
as_time_t(secs) ==
  LET low == secs % (2 ^ TimeTBits) IN
    IF low >= 2 ^ (TimeTBits - 1) THEN low - 2 ^ TimeTBits ELSE low

\* libc::timespec { tv_sec: dur.as_secs() as _,
\*                  tv_nsec: i64::from(dur.subsec_nanos()) }
timespec(dur) ==
  [tv_sec |-> as_time_t(dur \div NanosPerSec), tv_nsec |-> dur % NanosPerSec]

\* The instant a timespec denotes, as the primitive reads it.
abstime(t) == t.tv_sec * NanosPerSec + t.tv_nsec

\* The timespec the loop of timedwait hands to sem_timedwait on a further
\* turn: the local built before the loop.
\* Variant: every turn builds a timeout that starts at the current time.
retry_timespec_restart(t, clock) ==
  [tv_sec |-> as_time_t((clock + 1) \div NanosPerSec),
   tv_nsec |-> (clock + 1) % NanosPerSec]
retry_timespec(t, clock) == t

\* Error::last_os_error().kind()
kind(errno) ==
  CASE errno = "EINTR" -> "Interrupted"
    [] errno = "EAGAIN" -> "WouldBlock"
    [] errno = "ETIMEDOUT" -> "TimedOut"
    [] errno = "EINVAL" -> "InvalidInput"
    [] OTHER -> "Other"

(* --------------------- the primitives (environment) ------------------- *)
Outcome(r, e, c, i) ==
  [ret |-> r, errno |-> e, count |-> c, intr |-> i, fault |-> FALSE]

Interrupt(c, sigs) ==
  IF sigs > 0 THEN {Outcome(-1, "EINTR", c, TRUE)} ELSE {}

\* A failure none of the wrappers expects (the semaphore is reported
\* invalid); it leaves the value alone.
Faulty(c, flt) ==
  IF flt > 0
  THEN {[ret |-> -1, errno |-> "EINVAL", count |-> c, intr |-> FALSE,
         fault |-> TRUE]}
  ELSE {}

\* sem_init(sem, 0, value): EINVAL when value exceeds SEM_VALUE_MAX.
sem_init(v) ==
  IF v > SemValueMax THEN Outcome(-1, "EINVAL", 0, FALSE)
  ELSE Outcome(0, "0", v, FALSE)

\* sem_wait: decrements a positive value; on zero the caller blocks, or is
\* interrupted by a signal.
sem_wait(c, sigs, flt) ==
  (IF c > 0 THEN {Outcome(0, "0", c - 1, FALSE)} ELSE {})
    \cup Interrupt(c, sigs) \cup Faulty(c, flt)

\* sem_trywait: as sem_wait, but EAGAIN instead of blocking.
sem_trywait(c, sigs, flt) ==
  (IF c > 0 THEN {Outcome(0, "0", c - 1, FALSE)}
   ELSE {Outcome(-1, "EAGAIN", c, FALSE)})
    \cup Interrupt(c, sigs) \cup Faulty(c, flt)

\* sem_timedwait: as sem_wait, but ETIMEDOUT once the absolute timeout has
\* passed with the value at zero; EINVAL on a malformed tv_nsec.
sem_timedwait(c, sigs, flt, t, clock) ==
  Faulty(c, flt) \cup
  (IF c > 0 THEN {Outcome(0, "0", c - 1, FALSE)} \cup Interrupt(c, sigs)
   ELSE IF t.tv_nsec < 0 \/ t.tv_nsec >= NanosPerSec
        THEN {Outcome(-1, "EINVAL", c, FALSE)}
   ELSE IF clock >= abstime(t) THEN {Outcome(-1, "ETIMEDOUT", c, FALSE)}
                                    \cup Interrupt(c, sigs)
   ELSE Interrupt(c, sigs))

\* sem_post: EOVERFLOW when the value is already SEM_VALUE_MAX.
sem_post(c, flt) ==
  (IF c < SemValueMax THEN {Outcome(0, "0", c + 1, FALSE)}
   ELSE {Outcome(-1, "EOVERFLOW", c, FALSE)}) \cup Faulty(c, flt)

\* sem_getvalue: stores the value, returns 0.
sem_getvalue(c, flt) ==
  {[ret |-> 0, val |-> c, fault |-> FALSE]}
    \cup (IF flt > 0 THEN {[ret |-> -1, val |-> 0, fault |-> TRUE]} ELSE {})

\* sem_destroy of an initialized semaphore nobody is blocked on.
sem_destroy(k, flt) ==
  IF k = "init" THEN {[ret |-> 0, fault |-> FALSE]}
                     \cup (IF flt > 0 THEN {[ret |-> -1, fault |-> TRUE]} ELSE {})
  ELSE {[ret |-> -1, fault |-> FALSE]}

(* ---------------- the wrappers' outcome classification ---------------- *)
\* wait: 0 returns, anything else must be an interruption and loops.
\* Variant: asserts the wrong error kind, so an interruption panics.
wait_class_strict(o) ==
  IF o.ret = 0 THEN "return"
  ELSE IF kind(o.errno) = "WouldBlock" THEN "retry" ELSE "panic"
\* Variant: an interruption returns instead of looping.
wait_class_bad(o) ==
  IF o.ret = 0 THEN "return"
  ELSE IF kind(o.errno) = "Interrupted" THEN "return" ELSE "panic"
wait_class(o) ==
  IF o.ret = 0 THEN "return"
  ELSE IF kind(o.errno) = "Interrupted" THEN "retry" ELSE "panic"

\* trywait: Ok | continue | Err(NoToken) | unreachable!
\* Variant: an interruption is reported as NoToken.
trywait_class_bad(o) ==
  IF o.ret = 0 THEN "Ok"
  ELSE CASE kind(o.errno) = "Interrupted" -> "NoToken"
         [] kind(o.errno) = "WouldBlock" -> "NoToken"
         [] OTHER -> "panic"
\* Variant: an empty semaphore makes the loop go round again.
trywait_class_spin(o) ==
  IF o.ret = 0 THEN "Ok"
  ELSE CASE kind(o.errno) = "Interrupted" -> "retry"
         [] kind(o.errno) = "WouldBlock" -> "retry"
         [] OTHER -> "panic"
trywait_class(o) ==
  IF o.ret = 0 THEN "Ok"
  ELSE CASE kind(o.errno) = "Interrupted" -> "retry"
         [] kind(o.errno) = "WouldBlock" -> "NoToken"
         [] OTHER -> "panic"

\* timedwait: Ok | continue | Err(NoToken) | unreachable!
\* Variant: an interruption is reported as NoToken.
timedwait_class_bad(o) ==
  IF o.ret = 0 THEN "Ok"
  ELSE CASE kind(o.errno) = "Interrupted" -> "NoToken"
         [] kind(o.errno) = "TimedOut" -> "NoToken"
         [] OTHER -> "panic"
timedwait_class(o) ==
  IF o.ret = 0 THEN "Ok"
  ELSE CASE kind(o.errno) = "Interrupted" -> "retry"
         [] kind(o.errno) = "TimedOut" -> "NoToken"
         [] OTHER -> "panic"

\* post: Ok | Err(Overflow) | unreachable!
\* Variant: the overflow is swallowed.
post_class_bad(o) ==
  IF o.ret = 0 THEN "Ok"
  ELSE IF o.errno = "EOVERFLOW" THEN "Ok" ELSE "panic"
post_class(o) ==
  IF o.ret = 0 THEN "Ok"
  ELSE IF o.errno = "EOVERFLOW" THEN "Overflow" ELSE "panic"

\* value: assert_eq!(0, sem_getvalue(..)); val
\* Variant: returns the initial value of the local instead of what was read.
value_class_bad(g) ==
  IF g.ret = 0 THEN [ok |-> TRUE, val |-> 0] ELSE [ok |-> FALSE, val |-> 0]
\* Variant: the value reported is one below the value read.
value_class_low(g) ==
  IF g.ret = 0 THEN [ok |-> TRUE, val |-> g.val - 1]
  ELSE [ok |-> FALSE, val |-> 0]
value_class(g) ==
  IF g.ret = 0 THEN [ok |-> TRUE, val |-> g.val] ELSE [ok |-> FALSE, val |-> 0]

\* Drop: sem_destroy only in Mode::Anonymous, then the Box is freed.
\* Variant: the teardown is skipped.
drop_events_bad(m) == <<"free">>
\* Variant: the teardown runs whatever the mode.
drop_events_always(m) == <<"sem_destroy", "free">>
drop_events(m) ==
  IF m = "Anonymous" THEN <<"sem_destroy", "free">> ELSE <<"free">>

\* The mode anonymous() leaves in the handle: Mode::Anonymous is set only
\* in the arm of a successful sem_init.
\* Variant: the assignment of the mode is missing.
init_mode_bad(ret) == "Uninitialized"
init_mode(ret) == IF ret = 0 THEN "Anonymous" ELSE "Uninitialized"

(* ------------------------------ helpers ------------------------------- *)
Finish(t, op, v, n) ==
  /\ pc' = [pc EXCEPT ![t] = "idle"]
  /\ arg' = [arg EXCEPT ![t] = 0]
  /\ res' = [res EXCEPT ![t] = [op |-> op, val |-> v, num |-> n]]

Panic(t) ==
  /\ pc' = [pc EXCEPT ![t] = "panicked"]
  /\ arg' = [arg EXCEPT ![t] = 0]
  /\ UNCHANGED res

Spend(o) == signals' = signals - (IF o.intr THEN 1 ELSE 0)

Strike(o) == faults' = faults - (IF o.fault THEN 1 ELSE 0)

Has(seq, e) == \E i \in 1..Len(seq) : seq[i] = e

\* Every method takes &self: from its entry to its return (or its panic)
\* the calling thread borrows the handle.
Borrowed(t) == pc[t] \notin {"idle", "panicked"}

\* Drop::drop takes &mut self: it runs with no borrow outstanding.
Quiet == \A t \in Threads : ~ Borrowed(t)

(* ------------------------------ lifecycle ----------------------------- *)
\* Semaphore::anonymous(value): uninitialized(), sem_init, and on failure
\* the drop of the partial handle.
anonymous(value) ==
  /\ handle = "none"
  /\ given' = value
  /\ LET o == sem_init(init_arg(value)) IN
       IF o.ret = 0
       THEN /\ handle' = "live"
            /\ mode' = init_mode(o.ret)
            /\ mem' = "allocated"
            /\ kstate' = "init"
            /\ count' = o.count
            /\ initial' = o.count
            /\ log' = log \o <<"alloc", "sem_init">>
            /\ ctor' = "Ok"
       ELSE /\ handle' = "failed"
            /\ mode' = init_mode(o.ret)
            /\ mem' = IF Has(drop_events(init_mode(o.ret)), "free")
                      THEN "freed" ELSE "allocated"
            /\ log' = log \o <<"alloc", "sem_init_failed">>
                          \o drop_events(init_mode(o.ret))
            /\ ctor' = o.errno
            /\ UNCHANGED <<kstate, count, initial>>
  /\ UNCHANGED <<pc, arg, ts, res, now, signals, faults, ncalls, nAcq, nRel>>

\* impl Drop for Semaphore: runs in the thread t that lets go of the last
\* owner, which the borrow rules allow only while no call on &self is in
\* progress.
drop(t) ==
  /\ handle = "live"
  /\ Quiet
  /\ handle' = "dropped"
  /\ LET ev == drop_events(mode)
         destroys == Has(ev, "sem_destroy")
     IN IF destroys
        THEN \E d \in sem_destroy(kstate, faults) :
               /\ Strike(d)
               \* assert_eq!(0, sem_destroy(..)): a failure panics in the
               \* dropping thread, before the free.
               /\ IF d.ret = 0
                  THEN /\ log' = log \o ev
                       /\ kstate' = "destroyed"
                       /\ mem' = IF Has(ev, "free") THEN "freed" ELSE mem
                       /\ UNCHANGED pc
                  ELSE /\ log' = log \o <<"sem_destroy">>
                       /\ pc' = [pc EXCEPT ![t] = "panicked"]
                       /\ UNCHANGED <<kstate, mem>>
        ELSE /\ log' = log \o ev
             /\ mem' = IF Has(ev, "free") THEN "freed" ELSE mem
             /\ UNCHANGED <<kstate, pc, faults>>
  /\ UNCHANGED <<mode, count, ctor, arg, ts, res, now, signals, ncalls,
                 nAcq, nRel, initial, given>>

(* ------------------------------ wrappers ------------------------------ *)
wait(t) ==
  /\ pc[t] = "wait"
  /\ \E o \in sem_wait(count, signals, faults) :
       /\ count' = o.count
       /\ Spend(o)
       /\ Strike(o)
       /\ CASE wait_class(o) = "return" ->
                 /\ Finish(t, "wait", "Unit", 0)
                 /\ nAcq' = nAcq + 1
            [] wait_class(o) = "retry" -> UNCHANGED <<pc, arg, res, nAcq>>
            [] OTHER -> Panic(t) /\ UNCHANGED nAcq
  /\ UNCHANGED <<handle, mode, mem, kstate, log, ctor, ts, now, ncalls,
                 nRel, initial, given>>

trywait(t) ==
  /\ pc[t] = "trywait"
  /\ \E o \in sem_trywait(count, signals, faults) :
       /\ count' = o.count
       /\ Spend(o)
       /\ Strike(o)
       /\ CASE trywait_class(o) = "Ok" ->
                 /\ Finish(t, "trywait", "Ok", 0)
                 /\ nAcq' = nAcq + 1
            [] trywait_class(o) = "NoToken" ->
                 /\ Finish(t, "trywait", "NoToken", 0)
                 /\ UNCHANGED nAcq
            [] trywait_class(o) = "retry" -> UNCHANGED <<pc, arg, res, nAcq>>
            [] OTHER -> Panic(t) /\ UNCHANGED nAcq
  /\ UNCHANGED <<handle, mode, mem, kstate, log, ctor, ts, now, ncalls,
                 nRel, initial, given>>

\* The first step of timedwait computes the timespec (or panics on the
\* unwrap); every later step is one turn of the loop with that timespec.
timedwait(t) ==
  /\ pc[t] = "timedwait"
  /\ IF ts[t] = NoTs
     THEN LET d == duration_since(arg[t], UNIX_EPOCH) IN
            /\ IF d.ok
               THEN /\ ts' = [ts EXCEPT ![t] = timespec(d.dur)]
                    /\ UNCHANGED <<pc, arg, res>>
               ELSE /\ Panic(t)
                    /\ UNCHANGED ts
            /\ UNCHANGED <<count, signals, faults, nAcq>>
     ELSE \E o \in sem_timedwait(count, signals, faults, ts[t], now) :
            /\ count' = o.count
            /\ Spend(o)
            /\ Strike(o)
            /\ CASE timedwait_class(o) = "Ok" ->
                      /\ Finish(t, "timedwait", "Ok", 0)
                      /\ ts' = [ts EXCEPT ![t] = NoTs]
                      /\ nAcq' = nAcq + 1
                 [] timedwait_class(o) = "NoToken" ->
                      /\ Finish(t, "timedwait", "NoToken", 0)
                      /\ ts' = [ts EXCEPT ![t] = NoTs]
                      /\ UNCHANGED nAcq
                 [] timedwait_class(o) = "retry" ->
                      /\ ts' = [ts EXCEPT ![t] = retry_timespec(ts[t], now)]
                      /\ UNCHANGED <<pc, arg, res, nAcq>>
                 [] OTHER -> Panic(t) /\ UNCHANGED <<ts, nAcq>>
  /\ UNCHANGED <<handle, mode, mem, kstate, log, ctor, now, ncalls,
                 nRel, initial, given>>

post(t) ==
  /\ pc[t] = "post"
  /\ \E o \in sem_post(count, faults) :
       /\ count' = o.count
       /\ Strike(o)
       /\ CASE post_class(o) = "Ok" ->
                 /\ Finish(t, "post", "Ok", 0)
                 /\ nRel' = nRel + 1
            [] post_class(o) = "Overflow" ->
                 /\ Finish(t, "post", "Overflow", 0)
                 /\ UNCHANGED nRel
            [] OTHER -> Panic(t) /\ UNCHANGED nRel
  /\ UNCHANGED <<handle, mode, mem, kstate, log, ctor, ts, now, signals,
                 ncalls, nAcq, initial, given>>

value(t) ==
  /\ pc[t] = "value"
  /\ \E g \in sem_getvalue(count, faults) :
       /\ Strike(g)
       /\ LET v == value_class(g) IN
            IF v.ok THEN Finish(t, "value", "Int", v.val) ELSE Panic(t)
  /\ UNCHANGED <<handle, mode, mem, kstate, count, log, ctor, ts, now,
                 signals, ncalls, nAcq, nRel, initial, given>>

(* ------------------------- clients and the clock ---------------------- *)
Ops == {"wait", "trywait", "timedwait", "post", "value"}
Deadlines == (UNIX_EPOCH - 1)..MaxTime

\* A thread holding a reference to the live handle calls one of its methods;
\* `limit` bounds the calls of one run.
Call(t, op, until, limit) ==
  /\ handle = "live"
  /\ pc[t] = "idle"
  /\ ncalls < limit
  /\ ncalls' = ncalls + 1
  /\ pc' = [pc EXCEPT ![t] = op]
  /\ arg' = [arg EXCEPT ![t] = IF op = "timedwait" THEN until ELSE arg[t]]
  /\ UNCHANGED <<handle, mode, mem, kstate, count, log, ctor, ts, res, now,
                 signals, faults, nAcq, nRel, initial, given>>

\* The clock advances; only the instants at which the handle is in use are
\* told apart.
Tick ==
  /\ handle = "live"
  /\ now < MaxTime
  /\ now' = now + 1
  /\ UNCHANGED <<handle, mode, mem, kstate, count, log, ctor, pc, arg, ts,
                 res, signals, faults, ncalls, nAcq, nRel, initial, given>>

(* --------------------------- specifications --------------------------- *)
InitValues == -1..(SemValueMax + 1)
NoPlan == [op |-> "none", total |-> 0, left |-> 0]

InitCommon ==
  /\ handle = "none"
  /\ mode = "Uninitialized"
  /\ mem = "unallocated"
  /\ kstate = "zeroed"
  /\ count = 0
  /\ log = <<>>
  /\ ctor = "none"
  /\ pc = [t \in Threads |-> "idle"]
  /\ arg = [t \in Threads |-> 0]
  /\ ts = [t \in Threads |-> NoTs]
  /\ res = [t \in Threads |-> NoRes]
  /\ now = 0
  /\ ncalls = 0
  /\ nAcq = 0
  /\ nRel = 0
  /\ initial = 0
  /\ given = 0
  /\ hist = <<>>

\* A valid semaphore never fails in a way the wrappers do not expect.
InitCore ==
  /\ InitCommon
  /\ signals = MaxSignals
  /\ faults = 0

Init ==
  /\ InitCore
  /\ plan = [t \in Threads |-> NoPlan]

\* Spec: the worker threads call any method at any time.
Next ==
  \/ \E v \in InitValues : anonymous(v) /\ UNCHANGED <<hist, plan>>
  \/ \E t \in Threads : drop(t) /\ UNCHANGED <<hist, plan>>
  \/ Tick /\ UNCHANGED <<hist, plan>>
  \/ \E t \in Workers, op \in Ops, u \in Deadlines :
       Call(t, op, u, MaxCalls) /\ UNCHANGED <<hist, plan>>
  \/ \E t \in Workers : wait(t) /\ UNCHANGED <<hist, plan>>
  \/ \E t \in Workers : trywait(t) /\ UNCHANGED <<hist, plan>>
  \/ \E t \in Workers : timedwait(t) /\ UNCHANGED <<hist, plan>>
  \/ \E t \in Workers : post(t) /\ UNCHANGED <<hist, plan>>
  \/ \E t \in Workers : value(t) /\ UNCHANGED <<hist, plan>>

Spec == Init /\ [][Next]_vars

(* SpecFault: every thread, the constructing thread included, calls any   *)
(* method, and the primitives may report a failure outside the wrappers'   *)
(* classification (no signals).  A panic unwinds the thread it happens in: *)
(* the other threads go on, and the handle is still dropped by its last    *)
(* owner, which may be a thread that has panicked and is unwinding.        *)
InitFault ==
  /\ InitCommon
  /\ signals = 0
  /\ faults = MaxFaults
  /\ plan = [t \in Threads |-> NoPlan]

FaultNext ==
  \/ \E v \in InitValues : anonymous(v) /\ UNCHANGED <<hist, plan>>
  \/ \E t \in Threads : drop(t) /\ UNCHANGED <<hist, plan>>
  \/ Tick /\ UNCHANGED <<hist, plan>>
  \/ \E t \in Threads, op \in Ops, u \in Deadlines :
       Call(t, op, u, MaxCalls) /\ UNCHANGED <<hist, plan>>
  \/ \E t \in Threads : wait(t) /\ UNCHANGED <<hist, plan>>
  \/ \E t \in Threads : trywait(t) /\ UNCHANGED <<hist, plan>>
  \/ \E t \in Threads : timedwait(t) /\ UNCHANGED <<hist, plan>>
  \/ \E t \in Threads : post(t) /\ UNCHANGED <<hist, plan>>
  \/ \E t \in Threads : value(t) /\ UNCHANGED <<hist, plan>>

SpecFault == InitFault /\ [][FaultNext]_vars

(* SpecSolo: one thread owns the handle and calls it sequentially, as the  *)
(* tests wait_one and try_wait do; hist records each completed call.       *)
Record ==
  hist' = IF pc[Main] # "idle" /\ pc'[Main] = "idle"
          THEN Append(hist, res'[Main]) ELSE hist

SoloOps == {"wait", "trywait", "post", "value"}

SoloNext ==
  \/ \E v \in InitValues : anonymous(v) /\ UNCHANGED <<hist, plan>>
  \/ drop(Main) /\ UNCHANGED <<hist, plan>>
  \/ \E op \in SoloOps : Call(Main, op, 0, MaxHist) /\ UNCHANGED <<hist, plan>>
  \/ wait(Main) /\ Record /\ UNCHANGED plan
  \/ trywait(Main) /\ Record /\ UNCHANGED plan
  \/ post(Main) /\ Record /\ UNCHANGED plan
  \/ value(Main) /\ Record /\ UNCHANGED plan

SpecSolo == Init /\ [][SoloNext]_vars

(* SpecSection: every worker acquires a token (by any of the three         *)
(* acquiring methods) before it enters a section and posts once after it   *)
(* has left it.                                                            *)
Acquires == {"wait", "trywait", "timedwait"}

\* The thread's last call was an acquisition that succeeded, and it has not
\* yet called post: it is inside the section.
InSection(t) ==
  /\ pc[t] = "idle"
  /\ res[t].op \in Acquires
  /\ res[t].val \in {"Unit", "Ok"}

SectionCall(t) ==
  IF InSection(t)
  THEN Call(t, "post", 0, MaxSectionCalls)
  ELSE \E op \in Acquires, u \in Deadlines : Call(t, op, u, MaxSectionCalls)

SectionNext ==
  \/ \E v \in InitValues : anonymous(v) /\ UNCHANGED <<hist, plan>>
  \/ Tick /\ UNCHANGED <<hist, plan>>
  \/ \E t \in Workers : SectionCall(t) /\ UNCHANGED <<hist, plan>>
  \/ \E t \in Workers : wait(t) /\ UNCHANGED <<hist, plan>>
  \/ \E t \in Workers : trywait(t) /\ UNCHANGED <<hist, plan>>
  \/ \E t \in Workers : timedwait(t) /\ UNCHANGED <<hist, plan>>
  \/ \E t \in Workers : post(t) /\ UNCHANGED <<hist, plan>>

SpecSection == Init /\ [][SectionNext]_vars

(* SpecScript: the handle starts at count 0 and is shared (as through an   *)
(* Arc) by threads that each run a fixed script: one thread posts, every   *)
(* other thread waits, each a fixed number of times.  The test wait_thread *)
(* is the script "a worker posts twice, the main thread waits twice".      *)
Script(op, k) == [op |-> op, total |-> k, left |-> k]

ScriptInit ==
  /\ InitCore
  /\ \E p \in Threads, r \in 0..MaxPlan :
       \E w \in [Threads \ {p} -> 0..MaxPlan] :
         plan = [t \in Threads |->
                   IF t = p THEN Script("post", r) ELSE Script("wait", w[t])]

ScriptCall(t) ==
  /\ plan[t].left > 0
  /\ Call(t, plan[t].op, 0, NumThreads * MaxPlan + MaxPlan)
  /\ plan' = [plan EXCEPT ![t].left = @ - 1]

ScriptsDone == \A t \in Threads : plan[t].left = 0

ScriptNext ==
  \/ anonymous(0) /\ UNCHANGED <<hist, plan>>
  \/ \E t \in Threads : ScriptsDone /\ drop(t) /\ UNCHANGED <<hist, plan>>
  \/ \E t \in Threads : ScriptCall(t) /\ UNCHANGED hist
  \/ \E t \in Threads : wait(t) /\ UNCHANGED <<hist, plan>>
  \/ \E t \in Threads : post(t) /\ UNCHANGED <<hist, plan>>

\* The scheduler is preemptive: a thread that can take a step keeps being
\* able to until it takes it or another thread takes the token, and is
\* eventually run.
ScriptFairness ==
  /\ WF_vars(anonymous(0) /\ UNCHANGED <<hist, plan>>)
  /\ \A t \in Threads :
       /\ WF_vars(ScriptCall(t) /\ UNCHANGED hist)
       /\ WF_vars(wait(t) /\ UNCHANGED <<hist, plan>>)
       /\ WF_vars(post(t) /\ UNCHANGED <<hist, plan>>)

SpecScript == ScriptInit /\ [][ScriptNext]_vars /\ ScriptFairness

(* ============================ properties ============================== *)
Min(a, b) == IF a <= b THEN a ELSE b

Inside == {t \in Workers : InSection(t)}
Leaving == {t \in Workers : pc[t] = "post"}

\* C1: with the handle constructed with count n and every thread acquiring
\* one token before it enters the section and posting once after it leaves,
\* at most n threads are inside the section in every reachable state; the
\* tokens are accounted for exactly (inside + about to post + count = n), so
\* no thread gets past a count of zero before a post has raised it.
C1_AtMostNInside ==
  handle = "live" =>
    /\ Cardinality(Inside) <= given
    /\ Cardinality(Inside) + Cardinality(Leaving) + count = given

\* C1 witness: one token, one thread inside, the other blocked in wait on a
\* count of zero.
C1_Witness ==
  /\ handle = "live" /\ given = 1 /\ count = 0
  /\ \E t \in Workers, u \in Workers :
       t # u /\ InSection(t) /\ pc[u] = "wait" /\ res[u].op = "none"

HandoffStart ==
  /\ handle = "none"
  /\ plan[Main] = Script("wait", 2)
  /\ \E a \in Workers :
       /\ plan[a] = Script("post", 2)
       /\ \A t \in Workers \ {a} : plan[t].total = 0

HandoffDone ==
  /\ plan[Main].op = "wait" /\ plan[Main].total = 2 /\ plan[Main].left = 0
  /\ pc[Main] = "idle"
  /\ res[Main].op = "wait" /\ res[Main].val = "Unit"
  /\ nAcq = 2

\* C2: a handle at count 0 shared by two threads, one posting twice and the
\* other waiting twice: under fair scheduling both waits eventually return,
\* in every interleaving of the posts with the waits and with interruptions.
C2_HandoffCompletes == HandoffStart ~> HandoffDone

\* C2 witness: the waiting thread has returned from both waits, having been
\* interrupted on the way.
C2_Witness == HandoffDone /\ signals = 0 /\ handle = "live"

Waiters == {t \in Threads : plan[t].op = "wait" /\ plan[t].total > 0}
Returned == {t \in Waiters : pc[t] = "idle" /\ res[t].op = "wait"}
Blocked == {t \in Waiters : pc[t] = "wait"}

\* Every waiter waits once, every script has made all its calls, no post is
\* still in progress and no waiter can proceed.
Settled ==
  /\ handle = "live"
  /\ \A t \in Waiters : plan[t].total = 1
  /\ \A t \in Threads : plan[t].left = 0 /\ pc[t] # "post"
  /\ count = 0 \/ Blocked = {}

\* C9: on a handle started at 0, the waits that have returned plus the count
\* always equal the successful posts (each post serves one waiter or is kept
\* in the count); once W single-wait threads and R posts have settled,
\* min(R, W) waiters have returned, the other waiters are still blocked, and
\* the count is R - min(R, W): R of W when R <= W, and R when W = 0.
C9_OneWaiterPerPost ==
  /\ handle = "live" => nAcq + count = nRel
  /\ Settled =>
       /\ Cardinality(Returned) = Min(nRel, Cardinality(Waiters))
       /\ Cardinality(Blocked) = Cardinality(Waiters) - Min(nRel, Cardinality(Waiters))
       /\ count = nRel - Min(nRel, Cardinality(Waiters))

\* C9 witness: two waiters, one post: one waiter returned, one still blocked.
C9_Witness ==
  /\ Settled /\ nRel = 1 /\ count = 0
  /\ Cardinality(Waiters) = 2 /\ Cardinality(Returned) = 1
  /\ Cardinality(Blocked) = 1

ValueRead(n) == [op |-> "value", val |-> "Int", num |-> n]
Is(r, op, v) == r.op = op /\ r.val = v

\* C3: for every initial count n with 0 <= n <= SEM_VALUE_MAX, anonymous(n)
\* succeeds and hands out an initialized handle, and value(), called before
\* any other method, returns n.
C3_ConstructedCount ==
  (handle # "none" /\ given \in 0..SemValueMax) =>
    /\ ctor = "Ok"
    /\ handle \in {"live", "dropped"}
    /\ mode = "Anonymous"
    /\ (Len(hist) >= 1 /\ hist[1].op = "value") => hist[1] = ValueRead(given)

\* C3 witness: constructed with the maximum count, and the first call, a
\* value(), has returned it.
C3_Witness ==
  /\ given = SemValueMax /\ ctor = "Ok"
  /\ hist = <<ValueRead(SemValueMax)>>

\* C4: on a handle constructed with n > 0 and used by one thread, the first
\* wait() can return at once; value() after it yields n - 1; a post() after
\* it succeeds and value() then yields n again.
C4_WaitPostRoundTrip ==
  (handle # "none" /\ ctor = "Ok" /\ given >= 1) =>
    /\ (hist = <<>> /\ pc[Main] = "wait") =>
         ENABLED (wait(Main) /\ pc'[Main] = "idle")
    /\ (Len(hist) >= 1 /\ hist[1].op = "wait") =>
         /\ (Len(hist) >= 2 /\ hist[2].op = "value") =>
              hist[2] = ValueRead(given - 1)
         /\ (Len(hist) >= 2 /\ hist[2].op = "post") =>
              /\ hist[2].val = "Ok"
              /\ (Len(hist) >= 3 /\ hist[3].op = "value") =>
                   hist[3] = ValueRead(given)
         /\ (Len(hist) >= 3 /\ hist[2].op = "value" /\ hist[3].op = "post") =>
              /\ hist[3].val = "Ok"
              /\ (Len(hist) >= 4 /\ hist[4].op = "value") =>
                   hist[4] = ValueRead(given)

\* C4 witness: wait, value, post, value on a handle constructed with 2.
C4_Witness ==
  /\ given = 2 /\ Len(hist) = 4
  /\ hist[1].op = "wait" /\ hist[2] = ValueRead(1)
  /\ Is(hist[3], "post", "Ok") /\ hist[4] = ValueRead(2)

\* C5: a trywait() call ends in Err(NoToken) exactly when the count is 0 at
\* its deciding attempt, and then leaves the count at 0; when the count is
\* positive it ends in Ok and the count goes down by exactly one.  It never
\* ends any other way.
C5_TryAcquire ==
  [][\A t \in Workers :
       (pc[t] = "trywait" /\ pc'[t] # "trywait") =>
         /\ pc'[t] = "idle"
         /\ res'[t].op = "trywait"
         /\ res'[t].val \in {"Ok", "NoToken"}
         /\ res'[t].val = "NoToken" <=> count = 0
         /\ count = 0 => count' = 0
         /\ count > 0 => count' = count - 1]_vars

\* C5 witness: on a handle constructed with 0 and never posted to, a
\* trywait has returned NoToken and the count is 0.
C5_Witness ==
  /\ given = 0 /\ ctor = "Ok" /\ nRel = 0 /\ count = 0
  /\ \E t \in Workers : Is(res[t], "trywait", "NoToken")

\* C6: a post() on a count equal to SEM_VALUE_MAX returns Err(Overflow) and
\* leaves the count at the maximum (no wrap, no panic); on any smaller count
\* it returns Ok and the count goes up by exactly one.
C6_ReleaseOverflow ==
  [][\A t \in Workers :
       (pc[t] = "post" /\ pc'[t] # "post") =>
         /\ pc'[t] = "idle"
         /\ res'[t].op = "post"
         /\ count = SemValueMax =>
              res'[t].val = "Overflow" /\ count' = SemValueMax
         /\ count < SemValueMax =>
              res'[t].val = "Ok" /\ count' = count + 1]_vars

\* C6 witness: a post has returned Overflow with the count at the maximum.
C6_Witness ==
  /\ count = SemValueMax
  /\ \E t \in Workers : Is(res[t], "post", "Overflow")

\* The turns of timedwait's loop, once the timespec is built.
InTimedLoop(t) == pc[t] = "timedwait" /\ ts[t] # NoTs
TimedOutcomes(t) ==
  {timedwait_class(o) : o \in sem_timedwait(count, signals, faults, ts[t], now)}

\* C7: while the count is 0 and the clock is before the deadline the caller
\* passed, timedwait cannot return; once the clock has reached the deadline
\* with the count still 0 it can return only NoToken, and does so with the
\* count left at 0; it returns Ok only by taking a token, the count going
\* down by one.
C7_Deadline ==
  /\ [](\A t \in Workers :
          (InTimedLoop(t) /\ count = 0) =>
            /\ now < arg[t] => TimedOutcomes(t) \subseteq {"retry"}
            /\ now >= arg[t] =>
                 /\ "NoToken" \in TimedOutcomes(t)
                 /\ TimedOutcomes(t) \subseteq {"NoToken", "retry"})
  /\ [][\A t \in Workers :
          (pc[t] = "timedwait" /\ pc'[t] = "idle") =>
            /\ res'[t].op = "timedwait"
            /\ res'[t].val = "NoToken" =>
                 count = 0 /\ count' = 0 /\ now >= arg[t]
            /\ res'[t].val # "NoToken" =>
                 res'[t].val = "Ok" /\ count > 0 /\ count' = count - 1]_vars

\* C7 witness: a thread is in timedwait with the latest deadline, the count
\* is 0, nothing was ever posted, and the clock has reached the deadline.
C7_Witness ==
  /\ count = 0 /\ nRel = 0 /\ now = MaxTime
  /\ \E t \in Workers : InTimedLoop(t) /\ arg[t] = MaxTime

\* C8: a step in which a signal interrupts a primitive changes neither the
\* count nor any thread's position or result (the call goes on); a wait()
\* can end only by returning; and every return of wait() and every Ok of
\* trywait() and timedwait() is a step that lowers the count by exactly one.
C8_InterruptInvisible ==
  [][/\ signals' # signals =>
          /\ signals' = signals - 1
          /\ count' = count /\ pc' = pc /\ res' = res /\ nAcq' = nAcq
     /\ \A t \in Workers :
          /\ (pc[t] = "wait" /\ pc'[t] # "wait") =>
               pc'[t] = "idle" /\ Is(res'[t], "wait", "Unit")
          /\ (pc[t] \in Acquires /\ pc'[t] = "idle"
                /\ res'[t].val \in {"Unit", "Ok"}) =>
               count' = count - 1 /\ signals' = signals]_vars

\* C8 witness: the only call made was a wait(); every signal was spent on
\* interrupting it, and it has returned.
C8_Witness ==
  /\ signals = 0 /\ ncalls = 1 /\ nAcq = 1
  /\ \E t \in Workers : Is(res[t], "wait", "Unit")

Count(seq, e) == Cardinality({i \in 1..Len(seq) : seq[i] = e})
Index(seq, e) == CHOOSE i \in 1..Len(seq) : seq[i] = e

\* C10: sem_destroy and the freeing of the backing memory each happen at
\* most once; a handle that was initialized and has been dropped had
\* sem_destroy called exactly once, before its memory was freed exactly
\* once; a handle whose initialization failed had no sem_destroy and its
\* memory freed exactly once; before the drop neither has happened.
C10_DestroyOnce ==
  /\ Count(log, "sem_destroy") <= 1
  /\ Count(log, "free") <= 1
  /\ handle = "none" => log = <<>>
  /\ handle = "live" =>
       /\ Count(log, "sem_destroy") = 0 /\ Count(log, "free") = 0
       /\ mem = "allocated" /\ kstate = "init"
  /\ handle = "dropped" =>
       /\ Count(log, "sem_destroy") = 1 /\ Count(log, "free") = 1
       /\ Index(log, "sem_destroy") < Index(log, "free")
       /\ mem = "freed" /\ kstate = "destroyed"
  /\ handle = "failed" =>
       /\ Count(log, "sem_destroy") = 0 /\ Count(log, "free") = 1
       /\ mem = "freed" /\ kstate = "zeroed"

\* C10 witness: a handle that was initialized and used has been dropped.
C10_Witness ==
  /\ handle = "dropped" /\ nAcq >= 1
  /\ log = <<"alloc", "sem_init", "sem_destroy", "free">>

\* C11: when sem_init fails (the count handed to it exceeds SEM_VALUE_MAX,
\* which includes every negative argument after the cast), anonymous()
\* returns the errno sem_init reported, no handle reaches a caller (no call
\* is ever started), sem_init was attempted exactly once, sem_destroy was
\* never called on the partial handle, and its memory was freed.
C11_InitFailure ==
  /\ handle \in {"live", "dropped"} => init_arg(given) <= SemValueMax
  /\ handle = "failed" =>
       /\ init_arg(given) > SemValueMax
       /\ ctor = sem_init(init_arg(given)).errno
       /\ ctor = "EINVAL"
       /\ log = <<"alloc", "sem_init_failed", "free">>
       /\ mem = "freed"
       /\ mode = "Uninitialized"
       /\ ncalls = 0
       /\ \A t \in Threads : pc[t] = "idle" /\ res[t] = NoRes
       /\ \A t \in Threads : ~ ENABLED drop(t)
       /\ \A v \in InitValues : ~ ENABLED anonymous(v)

\* C11 witness: a negative count was refused by sem_init.
C11_Witness ==
  handle = "failed" /\ given = -1 /\ ctor = "EINVAL"

NonBlocking == {"trywait", "post", "value"}

\* What one turn of the caller's own code can come to, in the current state.
TryOutcomes ==
  {trywait_class(o) : o \in sem_trywait(count, signals, faults)}
PostOutcomes == {post_class(o) : o \in sem_post(count, faults)}
ValueOutcomes == {value_class(g).ok : g \in sem_getvalue(count, faults)}

\* C12: trywait, post and value never block.  In every reachable state,
\* whatever the count (zero and SEM_VALUE_MAX included) and whatever the
\* other threads are doing, a thread inside one of them can take its own
\* step; post and value return in that one step; trywait returns in that
\* step unless a signal interrupts it, which takes one pending signal each
\* time.  A step that leaves such a call leaves it by returning its result.
C12_NeverBlocks ==
  /\ [](\A t \in Workers :
          /\ pc[t] = "trywait" =>
               /\ ENABLED trywait(t)
               /\ TryOutcomes \cap {"Ok", "NoToken"} # {}
               /\ TryOutcomes \subseteq {"Ok", "NoToken", "retry"}
               /\ "retry" \in TryOutcomes => signals > 0
          /\ pc[t] = "post" =>
               /\ ENABLED post(t)
               /\ PostOutcomes # {}
               /\ PostOutcomes \subseteq {"Ok", "Overflow"}
          /\ pc[t] = "value" =>
               /\ ENABLED value(t)
               /\ ValueOutcomes = {TRUE})
  /\ [][\A t \in Workers :
          pc[t] \in NonBlocking /\ pc'[t] # pc[t] =>
            pc'[t] = "idle" /\ res'[t].op = pc[t]]_vars

\* C12 witness: trywait came back empty-handed from an empty semaphore
\* while another thread stayed blocked in wait.
C12_Witness ==
  \E t, u \in Workers :
    /\ t # u /\ pc[u] = "wait" /\ count = 0 /\ signals = 0
    /\ Is(res[t], "trywait", "NoToken") /\ pc[t] = "idle"

\* A primitive has reported a failure outside the wrappers' classification.
Faulted == faults < MaxFaults

\* C13: once a primitive has reported a failure the calling wrapper does
\* not classify, the process is gone: no typed result is returned, no
\* thread starts, continues or completes an operation on the handle, and
\* the count no longer changes.
C13_ProcessTerminated ==
  [][Faulted => UNCHANGED <<pc, res, count>>]_vars

\* C14: while the handle is live, whatever the threads have done, the
\* semaphore's value is between 0 and SEM_VALUE_MAX, and every number
\* value() has returned is in that range too, also when it was read while
\* another thread was blocked in wait.
C14_CountInRange ==
  handle = "live" =>
    /\ count \in 0..SemValueMax
    /\ \A t \in Threads :
         res[t].op = "value" => res[t].num \in 0..SemValueMax

\* C14 witness: value() has returned 0 while another thread is blocked in
\* wait on the empty semaphore.
C14_Witness ==
  \E t, u \in Workers :
    /\ t # u /\ pc[u] = "wait" /\ count = 0 /\ handle = "live"
    /\ Is(res[t], "value", "Int") /\ res[t].num = 0 /\ pc[t] = "idle"
    /\ ncalls = MaxCalls

\* sem_init has succeeded on the backing object and sem_destroy has not run.
Initialized == Has(log, "sem_init") /\ ~ Has(log, "sem_destroy")

\* C15: a handle that exists (the one returned to the caller, or the partial
\* one of a failed construction) has the mode Anonymous exactly when
\* sem_init succeeded for it and it has not been destroyed; the mode is
\* Anonymous only after a successful sem_init; a dropped handle is no
\* longer initialized; and a handle in a caller's hands (returned by
\* anonymous(), or with a call in progress) never has the mode
\* Uninitialized.
C15_TagMatchesLifecycle ==
  /\ handle \in {"live", "failed"} => (mode = "Anonymous" <=> Initialized)
  /\ mode = "Anonymous" => Has(log, "sem_init") /\ ctor = "Ok"
  /\ handle = "dropped" => ~ Initialized
  /\ handle = "none" => mode = "Uninitialized" /\ ~ Initialized
  /\ ctor = "Ok" <=> handle \in {"live", "dropped"}
  /\ handle = "live" => mode = "Anonymous"
  /\ (\E t \in Threads : pc[t] \notin {"idle", "panicked"}) =>
       handle = "live" /\ mode = "Anonymous"

\* C15 witness: the handle was returned to the caller and is in use.
C15_Witness ==
  /\ handle = "live" /\ mode = "Anonymous" /\ ctor = "Ok"
  /\ given = SemValueMax /\ ncalls = MaxCalls
  /\ \E t \in Workers : pc[t] = "timedwait"

\* C16: the timespec timedwait hands to sem_timedwait is the one computed
\* from the caller's deadline before the loop, on every turn: while the
\* call is in its loop the timespec denotes the deadline the caller passed,
\* and no step of the loop (an interrupted turn included) changes it.  So
\* once that deadline has passed with the count at 0 the call cannot block:
\* it returns NoToken, or is interrupted, which takes a pending signal.
C16_DeadlineFixed ==
  /\ [](\A t \in Workers :
          InTimedLoop(t) =>
            /\ ts[t] = timespec(duration_since(arg[t], UNIX_EPOCH).dur)
            /\ abstime(ts[t]) = arg[t]
            /\ (count = 0 /\ now >= arg[t]) =>
                 /\ "NoToken" \in TimedOutcomes(t)
                 /\ "Ok" \notin TimedOutcomes(t)
                 /\ "retry" \in TimedOutcomes(t) => signals > 0)
  /\ [][\A t \in Workers :
          (InTimedLoop(t) /\ pc'[t] = "timedwait") =>
            ts'[t] = ts[t] /\ arg'[t] = arg[t]]_vars

\* C16 witness: the only call so far, a timedwait, has been interrupted and
\* is still in its loop with its deadline reached and no token available.
C16_Witness ==
  /\ ncalls = 1 /\ signals < MaxSignals /\ count = 0
  /\ \E t \in Workers : InTimedLoop(t) /\ arg[t] >= 1 /\ now >= arg[t]

\* C17: a timedwait whose deadline precedes the epoch panics on its first
\* step of its own, before any sem_timedwait: it never enters the loop, and
\* the step that ends it makes the thread panicked, records no result, and
\* leaves the count and the tally of acquisitions as they were, whatever
\* the count.
C17_BeforeEpochPanics ==
  /\ [](\A t \in Workers :
          (pc[t] = "timedwait" /\ arg[t] < UNIX_EPOCH) =>
            /\ ts[t] = NoTs
            /\ ENABLED timedwait(t))
  /\ [][\A t \in Workers :
          (pc[t] = "timedwait" /\ arg[t] < UNIX_EPOCH
             /\ (pc'[t] # pc[t] \/ ts'[t] # ts[t])) =>
            /\ pc'[t] = "panicked"
            /\ ts'[t] = NoTs
            /\ res' = res
            /\ count' = count
            /\ nAcq' = nAcq]_vars

\* C17 witness: the only call, a timedwait, has panicked although the
\* semaphore held a token, which is still there.
C17_Witness ==
  /\ ncalls = 1 /\ count > 0 /\ count = initial /\ nAcq = 0
  /\ \E t \in Workers : pc[t] = "panicked" /\ res[t] = NoRes

\* A step in which thread t completes an acquisition / a successful release.
Acquired(t) ==
  /\ pc[t] \in {"wait", "trywait", "timedwait"} /\ pc'[t] = "idle"
  /\ res'[t].val \in {"Unit", "Ok"}
Released(t) ==
  pc[t] = "post" /\ pc'[t] = "idle" /\ res'[t].val = "Ok"

\* C18: while the handle is live, the count equals the count it was
\* constructed with, plus the releases that returned Ok, minus the completed
\* acquisitions (returns of wait, Ok of trywait and timedwait).  Step by
\* step: the count goes up by one exactly in a step where post returns Ok,
\* down by one exactly in a step where wait returns or trywait/timedwait
\* returns Ok, and every other step (NoToken, Overflow, an interrupted
\* attempt, value, a panic) leaves it alone.
C18_TokenConservation ==
  /\ [](handle = "live" =>
          /\ initial = given
          /\ count = given + nRel - nAcq)
  /\ [][(handle = "live" /\ handle' = "live") =>
          LET acq == Cardinality({t \in Threads : Acquired(t)})
              rel == Cardinality({t \in Threads : Released(t)})
          IN /\ acq + rel <= 1
             /\ nAcq' = nAcq + acq
             /\ nRel' = nRel + rel
             /\ count' = count + rel - acq]_vars

\* C18 witness: one token has been released and one acquired, and a post
\* has been completed.
C18_Witness ==
  /\ handle = "live" /\ nRel = 1 /\ nAcq = 1 /\ count = given
  /\ \E t \in Workers : Is(res[t], "post", "Ok") /\ pc[t] = "idle"

====
